---- MODULE Spec2Model ----
(***************************************************************************)
(* A model of multiprof (src/multiprof.go): one invocation of the binary,  *)
(* from main() to process exit or process replacement.                     *)
(*                                                                         *)
(* Strings are sequences of one-character strings, so that the string      *)
(* operations of the program (prefix, suffix, replace, split, clean, glob  *)
(* matching) are computed character by character as the code does.        *)
(***************************************************************************)
EXTENDS Naturals, Sequences, FiniteSets

(***************************************************************************)
(* Bounds of the model.                                                    *)
(***************************************************************************)
\* Longest rule list drawn for the configuration file.
MaxRules == 2

(***************************************************************************)
(* package strings                                                         *)
(***************************************************************************)
HasPrefix(s, p) == Len(s) >= Len(p) /\ SubSeq(s, 1, Len(p)) = p

HasSuffix(s, p) == Len(s) >= Len(p) /\ SubSeq(s, Len(s) - Len(p) + 1, Len(s)) = p

\* A trim that removes the suffix as often as it ends the string.
TrimSuffix_Repeated(s, suffix) ==
    LET RECURSIVE Strip(_)
        Strip(t) == IF suffix # <<>> /\ HasSuffix(t, suffix)
                    THEN Strip(SubSeq(t, 1, Len(t) - Len(suffix)))
                    ELSE t
    IN  Strip(s)

\* strings.TrimSuffix: s without the trailing suffix, once; s itself otherwise.
TrimSuffix(s, suffix) ==
    IF HasSuffix(s, suffix) THEN SubSeq(s, 1, Len(s) - Len(suffix)) ELSE s

\* strings.Contains
Contains(s, sub) ==
    \E k \in 0..Len(s) : k + Len(sub) <= Len(s) /\ SubSeq(s, k + 1, k + Len(sub)) = sub

\* strings.ReplaceAll for a non-empty old: non-overlapping occurrences, left
\* to right.
RECURSIVE ReplaceAll(_, _, _)
ReplaceAll(s, old, new) ==
    IF s = <<>> \/ old = <<>> THEN s
    ELSE IF HasPrefix(s, old)
         THEN new \o ReplaceAll(SubSeq(s, Len(old) + 1, Len(s)), old, new)
         ELSE <<s[1]>> \o ReplaceAll(Tail(s), old, new)

\* strings.Split(s, sep) for a one-character sep: always at least one field.
RECURSIVE SplitOn(_, _)
SplitOn(s, sep) ==
    IF \A k \in 1..Len(s) : s[k] # sep THEN <<s>>
    ELSE LET k == CHOOSE n \in 1..Len(s) :
                      s[n] = sep /\ \A m \in 1..(n - 1) : s[m] # sep
         IN  <<SubSeq(s, 1, k - 1)>> \o SplitOn(SubSeq(s, k + 1, Len(s)), sep)

\* strings.Join(elems, sep)
RECURSIVE JoinWith(_, _)
JoinWith(elems, sep) ==
    IF elems = <<>> THEN <<>>
    ELSE IF Len(elems) = 1 THEN elems[1]
    ELSE elems[1] \o sep \o JoinWith(Tail(elems), sep)

RECURSIVE NonEmpty(_)
NonEmpty(elems) ==
    IF elems = <<>> THEN <<>>
    ELSE IF elems[1] = <<>> THEN NonEmpty(Tail(elems))
    ELSE <<elems[1]>> \o NonEmpty(Tail(elems))

(***************************************************************************)
(* package path/filepath (Unix)                                            *)
(***************************************************************************)
Separator == "/"
ListSeparator == ":"

\* filepath.SplitList: the empty string is the empty list.
SplitList(path) == IF path = <<>> THEN <<>> ELSE SplitOn(path, ListSeparator)

\* filepath.Clean: no empty or "." components, ".." resolved lexically, no
\* trailing separator; "." for an empty result.
RECURSIVE CleanParts(_, _, _)
CleanParts(parts, out, rooted) ==
    IF parts = <<>> THEN out
    ELSE LET p == parts[1]
             rest == Tail(parts)
         IN  IF p = <<>> \/ p = <<".">> THEN CleanParts(rest, out, rooted)
             ELSE IF p = <<".", ".">>
                  THEN IF out # <<>> /\ out[Len(out)] # <<".", ".">>
                       THEN CleanParts(rest, SubSeq(out, 1, Len(out) - 1), rooted)
                       ELSE IF rooted THEN CleanParts(rest, out, rooted)
                       ELSE CleanParts(rest, Append(out, p), rooted)
                  ELSE CleanParts(rest, Append(out, p), rooted)

Clean(path) ==
    IF path = <<>> THEN <<".">>
    ELSE LET rooted == path[1] = Separator
             body == JoinWith(CleanParts(SplitOn(path, Separator), <<>>, rooted),
                              <<Separator>>)
         IN  IF rooted THEN <<Separator>> \o body
             ELSE IF body = <<>> THEN <<".">> ELSE body

\* filepath.Join: the non-empty elements joined by the separator, cleaned.
Join(elems) ==
    IF NonEmpty(elems) = <<>> THEN <<>>
    ELSE Clean(JoinWith(NonEmpty(elems), <<Separator>>))

\* filepath.Base: the last element, trailing separators removed first.
RECURSIVE StripTrailingSeparators(_)
StripTrailingSeparators(path) ==
    IF path # <<>> /\ path[Len(path)] = Separator
    THEN StripTrailingSeparators(SubSeq(path, 1, Len(path) - 1))
    ELSE path

Base(path) ==
    IF path = <<>> THEN <<".">>
    ELSE LET p == StripTrailingSeparators(path)
             parts == SplitOn(p, Separator)
         IN  IF p = <<>> THEN <<Separator>> ELSE parts[Len(parts)]

(***************************************************************************)
(* package os: the environment and os.ExpandEnv                            *)
(***************************************************************************)
HOME == <<"H", "O", "M", "E">>
PATH == <<"P", "A", "T", "H">>

\* os.Getenv: the empty string for an unset variable.
Getenv(e, name) == IF name \in DOMAIN e THEN e[name] ELSE <<>>

\* os.Setenv
Setenv(e, name, value) ==
    [x \in DOMAIN e \cup {name} |-> IF x = name THEN value ELSE e[x]]

\* os.UserHomeDir on Unix: $HOME, an error when it is empty.
UserHomeDir(e) == [dir |-> Getenv(e, HOME), err |-> Getenv(e, HOME) = <<>>]

AlphaNum ==
    {"a", "b", "c", "d", "e", "f", "g", "h", "i", "j", "k", "l", "m",
     "n", "o", "p", "q", "r", "s", "t", "u", "v", "w", "x", "y", "z",
     "A", "B", "C", "D", "E", "F", "G", "H", "I", "J", "K", "L", "M",
     "N", "O", "P", "Q", "R", "S", "T", "U", "V", "W", "X", "Y", "Z",
     "0", "1", "2", "3", "4", "5", "6", "7", "8", "9", "_"}

ShellSpecialVar ==
    {"*", "#", "$", "@", "!", "?", "-",
     "0", "1", "2", "3", "4", "5", "6", "7", "8", "9"}

\* os.getShellName: the variable name that starts s (the text after a "$")
\* and the number of characters it takes.
ShellName(s) ==
    IF s[1] = "{"
    THEN IF Len(s) > 2 /\ s[2] \in ShellSpecialVar /\ s[3] = "}"
         THEN [name |-> <<s[2]>>, w |-> 3]
         ELSE IF \E k \in 2..Len(s) : s[k] = "}"
              THEN LET k == CHOOSE n \in 2..Len(s) :
                                s[n] = "}" /\ \A m \in 2..(n - 1) : s[m] # "}"
                   IN  IF k = 2 THEN [name |-> <<>>, w |-> 2]
                       ELSE [name |-> SubSeq(s, 2, k - 1), w |-> k]
              ELSE [name |-> <<>>, w |-> 1]
    ELSE IF s[1] \in ShellSpecialVar THEN [name |-> <<s[1]>>, w |-> 1]
    ELSE LET n == CHOOSE k \in 0..Len(s) :
                      /\ \A m \in 1..k : s[m] \in AlphaNum
                      /\ (k < Len(s) => s[k + 1] \notin AlphaNum)
         IN  [name |-> SubSeq(s, 1, n), w |-> n]

\* os.ExpandEnv: $var and ${var} replaced by the variable's value.
RECURSIVE ExpandEnv(_, _)
ExpandEnv(s, e) ==
    IF s = <<>> THEN <<>>
    ELSE IF s[1] = "$" /\ Len(s) >= 2
         THEN LET r == ShellName(Tail(s))
                  piece == IF r.name = <<>> /\ r.w > 0 THEN <<>>
                           ELSE IF r.name = <<>> THEN <<"$">>
                           ELSE Getenv(e, r.name)
              IN  piece \o ExpandEnv(SubSeq(s, 2 + r.w, Len(s)), e)
         ELSE <<s[1]>> \o ExpandEnv(Tail(s), e)

(***************************************************************************)
(* Helpers of multiprof.go                                                 *)
(***************************************************************************)
wrapperDirName ==
    <<".", "l", "o", "c", "a", "l", "/", "b", "i", "n", "/",
      "m", "u", "l", "t", "i", "p", "r", "o", "f">>

\* expandPath: a leading "~" becomes filepath.Join(home, rest); then
\* os.ExpandEnv.
\* An expansion that puts the home directory in the place of the "~" and
\* leaves the rest as it is.
expandPath_Verbatim(path, e) ==
    IF HasPrefix(path, <<"~">>) /\ ~UserHomeDir(e).err
    THEN ExpandEnv(UserHomeDir(e).dir \o Tail(path), e)
    ELSE ExpandEnv(path, e)

expandPath(path, e) ==
    IF HasPrefix(path, <<"~">>) /\ ~UserHomeDir(e).err
    THEN ExpandEnv(Join(<<UserHomeDir(e).dir, Tail(path)>>), e)
    ELSE ExpandEnv(path, e)

\* getWrapperDir: expandPath(filepath.Join("~/", wrapperDirName)) under the
\* environment of the moment of the call.
getWrapperDir(e) == expandPath(Join(<<<<"~", "/">>, wrapperDirName>>), e)

(***************************************************************************)
(* github.com/gobwas/glob as multiprof calls it.  glob.Compile(pattern,    *)
(* separators...) takes the separators that "*" and "?" must not cross;    *)
(* "**" crosses them.  The patterns of the model use literals, "*", "**",  *)
(* "?" and character lists "[...]".                                        *)
(***************************************************************************)
\* Whether glob.Compile returns a Glob: an unterminated "[" is an error, and
\* the Glob returned with the error is nil.
RECURSIVE CompileOK(_)
CompileOK(p) ==
    IF p = <<>> THEN TRUE
    ELSE IF p[1] = "["
         THEN /\ \E k \in 3..Len(p) : p[k] = "]"
              /\ LET k == CHOOSE n \in 3..Len(p) :
                              p[n] = "]" /\ \A m \in 3..(n - 1) : p[m] # "]"
                 IN  CompileOK(SubSeq(p, k + 1, Len(p)))
         ELSE CompileOK(Tail(p))

\* Glob.Match of a compilable pattern against s, with the separator set seps.
RECURSIVE GlobMatch(_, _, _)
GlobMatch(p, s, seps) ==
    IF p = <<>> THEN s = <<>>
    ELSE IF p[1] = "*" /\ Len(p) >= 2 /\ p[2] = "*"
         THEN \E k \in 0..Len(s) :
                  GlobMatch(SubSeq(p, 3, Len(p)), SubSeq(s, k + 1, Len(s)), seps)
    ELSE IF p[1] = "*"
         THEN \E k \in 0..Len(s) :
                  /\ \A m \in 1..k : s[m] \notin seps
                  /\ GlobMatch(Tail(p), SubSeq(s, k + 1, Len(s)), seps)
    ELSE IF p[1] = "?"
         THEN s # <<>> /\ s[1] \notin seps /\ GlobMatch(Tail(p), Tail(s), seps)
    ELSE IF p[1] = "["
         THEN LET k == CHOOSE n \in 3..Len(p) :
                           p[n] = "]" /\ \A m \in 3..(n - 1) : p[m] # "]"
                  neg == p[2] = "!"
                  list == {p[m] : m \in (IF neg THEN 3 ELSE 2)..(k - 1)}
              IN  /\ s # <<>>
                  /\ (s[1] \in list) # neg
                  /\ GlobMatch(SubSeq(p, k + 1, Len(p)), Tail(s), seps)
    ELSE s # <<>> /\ s[1] = p[1] /\ GlobMatch(Tail(p), Tail(s), seps)

\* The separators runWrapper passes to glob.Compile: none.
CompileSeparators == {}

(***************************************************************************)
(* os/exec.LookPath on Unix, over the set of executable files.             *)
(***************************************************************************)
RECURSIVE LookIn(_, _, _)
LookIn(dirs, file, executables) ==
    IF dirs = <<>> THEN [path |-> <<>>, err |-> TRUE]
    ELSE LET dir == IF dirs[1] = <<>> THEN <<".">> ELSE dirs[1]
             path == Join(<<dir, file>>)
         IN  IF path \in executables
             THEN [path |-> path, err |-> path[1] # Separator]
             ELSE LookIn(Tail(dirs), file, executables)

LookPath(file, pathValue, executables) ==
    IF Contains(file, <<Separator>>)
    THEN IF file \in executables THEN [path |-> file, err |-> FALSE]
         ELSE [path |-> <<>>, err |-> TRUE]
    ELSE LookIn(SplitList(pathValue), file, executables)

(***************************************************************************)
(* Configuration (Config, Settings, Rule) and the configuration file       *)
(***************************************************************************)
Rule(pattern, home) == [Pattern |-> pattern, Home |-> home]

Config(suffix, rules) == [Settings |-> [Suffix |-> suffix], Rules |-> rules]

\* var config Config: the zero value.
ZeroConfig == Config(<<>>, <<>>)

\* The embedded default.toml: the "_w" suffix and no rules.
DefaultConfig == Config(<<"_", "w">>, <<>>)

\* The configuration file on disk: missing, unparsable, or holding a Config.
MissingFile == [state |-> "missing", config |-> ZeroConfig]
MalformedFile == [state |-> "malformed", config |-> ZeroConfig]
StoredFile(c) == [state |-> "ok", config |-> c]

\* A file whose text holds the settings and rules of c and does not decode
\* (a syntax error somewhere in it): toml.DecodeFile fails before anything
\* is stored into the Config.
DamagedFile(c) == [state |-> "malformed", config |-> c]

\* createDefaultConfig: writes default.toml unless the file exists.
createDefaultConfig(f) == IF f.state = "missing" THEN StoredFile(DefaultConfig) ELSE f

\* loadConfig: creates the default file when there is none, then decodes;
\* a decode error leaves the zero Config, and every caller drops the error.
loadConfig(f) ==
    LET g == createDefaultConfig(f)
    IN  [file |-> g, config |-> IF g.state = "ok" THEN g.config ELSE ZeroConfig]

\* saveConfig: the file is truncated and the Config encoded into it.
saveConfig(c) == StoredFile(c)

(***************************************************************************)
(* The inputs of the model                                                 *)
(***************************************************************************)
UserHome == <<"/", "u">>
OtherVar == <<"W">>
BinDir == <<"/", "b", "i", "n">>
Aws == <<"a", "w", "s">>
SuffixW == <<"_", "w">>
Multiprof == <<"m", "u", "l", "t", "i", "p", "r", "o", "f">>
MainName == <<"m", "a", "i", "n">>

\* The wrapper directory of the invoking user, where add-wrapper puts the
\* wrapper symlinks.
UserWrapperDir == UserHome \o <<"/">> \o wrapperDirName

\* The wrapper directory another home would have.
RuleHomeAbs == <<"/", "h">>
ForeignWrapperDir == <<"/", "x">> \o RuleHomeAbs \o <<"/">> \o wrapperDirName

Colon == <<":">>

PathValues ==
    { UserWrapperDir \o Colon \o BinDir,
      BinDir \o Colon \o UserWrapperDir,
      UserWrapperDir \o Colon \o ForeignWrapperDir \o Colon \o BinDir,
      BinDir }

Env(pathValue) ==
    [x \in {HOME, PATH, OtherVar} |->
        IF x = HOME THEN UserHome
        ELSE IF x = PATH THEN pathValue ELSE <<"/", "w">>]

\* An environment in which PATH is not set.
EnvNoPath == [x \in {HOME, OtherVar} |-> IF x = HOME THEN UserHome ELSE <<"/", "w">>]

Patterns ==
    { <<"/", "a", "/", "*", "*">>,
      <<"/", "a", "/", "b", "/", "*", "*">>,
      <<"/", "a", "/", "*">>,
      <<"~", "/", "w", "/", "*", "*">>,
      <<"/", "a", "/", "[">> }

RuleHomes == { RuleHomeAbs, <<"~">> }

Rules == { Rule(p, h) : p \in Patterns, h \in RuleHomes }

RECURSIVE SeqsUpTo(_, _)
SeqsUpTo(S, n) ==
    IF n = 0 THEN {<<>>}
    ELSE LET shorter == SeqsUpTo(S, n - 1)
         IN  shorter \cup {Append(q, x) : q \in shorter, x \in S}

RuleLists == SeqsUpTo(Rules, MaxRules)

Cwds ==
    { <<"/", "a">>,
      <<"/", "a", "/", "b">>,
      <<"/", "a", "/", "b", "c">>,
      <<"/", "a", "/", "b", "/", "c", "/", "d">>,
      <<"/", "a", "/", "c">>,
      <<"/", "a", "/", "c", "/", "d">>,
      <<"/", "u", "/", "w">>,
      <<"/", "z">> }

WrapperNames ==
    { Aws, Aws \o SuffixW, Aws \o SuffixW \o SuffixW, <<".", "/">> \o Aws \o SuffixW,
      SuffixW }

ManagerNames == { Multiprof, <<"/", "o", "/">> \o Multiprof, MainName }

Commands == {"", "init", "add-rule", "add-wrapper", "list", "help", "bogus"}

\* os.Args: argv[0], the management command (argv[1], "" when absent), and
\* what the flag parsing of the command yields from the rest.
Args(argv0, cmd, pattern, home, names) ==
    [argv0 |-> argv0, cmd |-> cmd, pattern |-> pattern, home |-> home, names |-> names]

WrapperArgs(argv0) == Args(argv0, "s3", <<>>, <<>>, <<>>)

ManagerArgs ==
    { Args(n, c, <<>>, <<>>, <<>>) : n \in ManagerNames, c \in Commands \ {"add-rule", "add-wrapper"} }
    \cup { Args(Multiprof, "add-rule", p, h, <<>>) :
             p \in {<<>>, <<"/", "a", "/", "b", "/", "*", "*">>, <<"/", "z", "/", "*", "*">>},
             h \in {<<>>, RuleHomeAbs} }
    \cup { Args(Multiprof, "add-wrapper", <<>>, <<>>, ns) :
             ns \in {<<>>, <<Aws>>, <<Aws, Aws>>} }

OwnExecutable == [err |-> FALSE, path |-> <<"/", "o", "/">> \o Multiprof]
NoExecutable == [err |-> TRUE, path |-> <<>>]

\* The wrapper symlink through which a command typed as argv0 is reached.
WrapperOf(argv0) == Join(<<UserWrapperDir, Base(argv0)>>)

RealAws == Join(<<BinDir, Aws>>)

\* Rule homes that begin with "~": with a trailing separator, a ".."
\* component, a doubled separator, no separator after the "~", a clean
\* remainder, and an environment reference.
TildeHomes ==
    { <<"~", "/", "p", "/">>,
      <<"~", "/", "p", "/", ".", ".", "/", "q">>,
      <<"~", "/", "/", "p">>,
      <<"~", "p">>,
      <<"~", "/", "p">>,
      <<"~", "/", "$", "W">> }

OneRuleFiles ==
    { StoredFile(Config(sfx, <<Rule(<<"/", "a", "/", "*", "*">>, h)>>)) :
        sfx \in {<<>>, SuffixW}, h \in RuleHomes \cup TildeHomes }

(***************************************************************************)
(* State                                                                   *)
(***************************************************************************)
VARIABLES
    args,           \* os.Args
    ownExecutable,  \* what os.Executable() returns
    cwd,            \* what os.Getwd() returns
    startEnv,       \* the environment the process was started with
    bins,           \* the executables outside the wrapper directory
    env,            \* the process environment
    file,           \* the configuration file
    dirs,           \* the directories that exist
    wrappers,       \* the wrapper symlinks in the wrapper directory
    completions,    \* the wrapper names with a completion file
    pc,             \* where the process is
    mode,           \* the branch main() took
    config,         \* runWrapper's config
    i,              \* index of the rule the matching loop is at
    newHome, profileMatched,
    wrapperName, targetCmdName, originalPath, wrapperDir, safePath,
    targetCmdPath, lookErr,
    execErr,        \* syscall.Exec returned an error
    execed,         \* the process image syscall.Exec installed
    out,            \* what was logged
    exitStatus

inputs == <<args, ownExecutable, cwd, startEnv, bins>>
disk == <<file, dirs, wrappers, completions>>
matchVars == <<config, i, newHome, profileMatched>>
targetVars == <<wrapperName, targetCmdName, originalPath, wrapperDir, safePath,
                targetCmdPath, lookErr>>
vars == <<inputs, env, disk, pc, mode, matchVars, targetVars, execErr, execed,
          out, exitStatus>>

NotExeced == [done |-> FALSE, path |-> <<>>, argv |-> <<>>, envp |-> <<>>]

InitLocals ==
    /\ env = startEnv
    /\ completions = {}
    /\ pc = "main"
    /\ mode = "undecided"
    /\ config = ZeroConfig
    /\ i = 0
    /\ newHome = <<>>
    /\ profileMatched = FALSE
    /\ wrapperName = <<>>
    /\ targetCmdName = <<>>
    /\ originalPath = <<>>
    /\ wrapperDir = <<>>
    /\ safePath = <<>>
    /\ targetCmdPath = <<>>
    /\ lookErr = FALSE
    /\ execErr = FALSE
    /\ execed = NotExeced
    /\ out = <<>>
    /\ exitStatus = "running"

\* Wrapper invocations over every rule list and current directory.
InitMatching ==
    /\ args = WrapperArgs(Aws \o SuffixW)
    /\ ownExecutable = OwnExecutable
    /\ cwd \in Cwds
    /\ startEnv = Env(UserWrapperDir \o Colon \o BinDir)
    /\ bins = {RealAws}
    /\ file \in {StoredFile(Config(SuffixW, rs)) : rs \in RuleLists}
    /\ dirs = {UserWrapperDir}
    /\ wrappers = {WrapperOf(args.argv0)}

\* Wrapper invocations over every invoked name, suffix, PATH and rule home.
InitTarget ==
    /\ args \in {WrapperArgs(n) : n \in WrapperNames}
    /\ ownExecutable = OwnExecutable
    /\ cwd = <<"/", "a", "/", "b">>
    /\ startEnv \in {Env(p) : p \in PathValues} \cup {EnvNoPath}
    /\ bins \in {{}, {RealAws}}
    /\ file \in OneRuleFiles
    /\ dirs = {UserWrapperDir}
    /\ wrappers = {WrapperOf(args.argv0)}

\* Invocations under the executable's own name, and a start at which
\* os.Executable fails.
InitManager ==
    /\ args \in ManagerArgs \cup {WrapperArgs(Aws)}
    /\ ownExecutable \in {OwnExecutable, NoExecutable}
    /\ cwd = <<"/", "a", "/", "b">>
    /\ startEnv \in {Env(UserWrapperDir \o Colon \o BinDir), Env(BinDir)}
    /\ bins = {RealAws}
    /\ file \in {MissingFile, MalformedFile,
                 DamagedFile(Config(SuffixW,
                     <<Rule(<<"/", "a", "/", "*", "*">>, RuleHomeAbs)>>))}
                  \cup {StoredFile(Config(sfx, rs)) :
                          sfx \in {<<>>, SuffixW},
                          rs \in {<<>>, <<Rule(<<"/", "a", "/", "*", "*">>, RuleHomeAbs)>>,
                                  <<Rule(<<"/", "a", "/", "[">>, RuleHomeAbs)>>}}
    /\ \/ dirs = {} /\ wrappers = {}
       \/ dirs = {UserWrapperDir} /\ wrappers \in {{}, {Join(<<UserWrapperDir, Aws>>)}}

Init == (InitMatching \/ InitTarget \/ InitManager) /\ InitLocals

(***************************************************************************)
(* Process exit                                                            *)
(***************************************************************************)
\* The process ends with the given status after logging msgs.
Exit(status, msgs) ==
    /\ pc' = "done"
    /\ exitStatus' = status
    /\ out' = out \o msgs

(***************************************************************************)
(* main                                                                    *)
(***************************************************************************)
\* A dispatch on the executable's own name alone.
IsManagerName_OwnNameOnly(calledAs, ownName) == calledAs = ownName

\* The names under which main() runs the manager.
IsManagerName(calledAs, ownName) == calledAs = ownName \/ calledAs = MainName

\* os.Executable() fails.
MainNoExecutable ==
    /\ pc = "main"
    /\ ownExecutable.err
    /\ Exit("1", <<"FAIL: Cannot determine own path">>)
    /\ UNCHANGED <<inputs, env, disk, mode, matchVars, targetVars, execErr, execed>>

\* Invoked under the executable's own name: the usage text when there is no
\* command, runManager otherwise.
MainManager ==
    /\ pc = "main"
    /\ ~ownExecutable.err
    /\ IsManagerName(Base(args.argv0), Base(ownExecutable.path))
    /\ mode' = "manager"
    /\ IF args.cmd = ""
       THEN Exit("0", <<"usage">>)
       ELSE pc' = "manager" /\ UNCHANGED <<out, exitStatus>>
    /\ UNCHANGED <<inputs, env, disk, matchVars, targetVars, execErr, execed>>

\* Invoked under any other name: runWrapper.
MainWrapper ==
    /\ pc = "main"
    /\ ~ownExecutable.err
    /\ ~IsManagerName(Base(args.argv0), Base(ownExecutable.path))
    /\ mode' = "wrapper"
    /\ pc' = "w_load"
    /\ UNCHANGED <<inputs, env, disk, matchVars, targetVars, execErr, execed,
                   out, exitStatus>>

(***************************************************************************)
(* runWrapper                                                              *)
(***************************************************************************)
\* A match against expandedCwd alone.
RuleMatches_CwdOnly(rule, dir, e) ==
    GlobMatch(expandPath(rule.Pattern, e), expandPath(dir, e), CompileSeparators)

\* The rule's expanded pattern matches expandedCwd or expandedCwdWithSlash.
RuleMatches(rule, dir, e) ==
    LET expandedPattern == expandPath(rule.Pattern, e)
        expandedCwd == expandPath(dir, e)
        expandedCwdWithSlash == expandedCwd \o <<Separator>>
    IN  \/ GlobMatch(expandedPattern, expandedCwd, CompileSeparators)
        \/ GlobMatch(expandedPattern, expandedCwdWithSlash, CompileSeparators)

\* glob.Compile fails on the rule's expanded pattern: g is nil.
RuleGlobIsNil(rule, e) == ~CompileOK(expandPath(rule.Pattern, e))

WrapperLoadConfig ==
    /\ pc = "w_load"
    /\ config' = loadConfig(file).config
    /\ file' = loadConfig(file).file
    /\ i' = 1
    /\ pc' = "w_match"
    /\ UNCHANGED <<inputs, env, dirs, wrappers, completions, mode, newHome,
                   profileMatched, targetVars, execErr, execed, out, exitStatus>>

\* The loop is over: every rule was tried.
LoopExit ==
    /\ pc = "w_match"
    /\ i > Len(config.Rules)
    /\ pc' = "w_checked"
    /\ UNCHANGED <<inputs, env, disk, mode, matchVars, targetVars, execErr, execed,
                   out, exitStatus>>

\* g.Match on the nil Glob of a pattern that does not compile: a nil
\* dereference, the runtime prints the panic and exits with status 2.
MatchPanic ==
    /\ pc = "w_match"
    /\ i <= Len(config.Rules)
    /\ RuleGlobIsNil(config.Rules[i], env)
    /\ Exit("2", <<"panic: nil pointer dereference">>)
    /\ UNCHANGED <<inputs, env, disk, mode, matchVars, targetVars, execErr, execed>>

\* A loop without the break: the scan goes on after a match.
MatchRule_NoBreak ==
    /\ pc = "w_match"
    /\ i <= Len(config.Rules)
    /\ ~RuleGlobIsNil(config.Rules[i], env)
    /\ RuleMatches(config.Rules[i], cwd, env)
    /\ newHome' = expandPath(config.Rules[i].Home, env)
    /\ profileMatched' = TRUE
    /\ i' = i + 1
    /\ UNCHANGED <<inputs, env, disk, pc, mode, config, targetVars, execErr, execed,
                   out, exitStatus>>

\* The rule matches: newHome is set and the loop is left.
MatchRule ==
    /\ pc = "w_match"
    /\ i <= Len(config.Rules)
    /\ ~RuleGlobIsNil(config.Rules[i], env)
    /\ RuleMatches(config.Rules[i], cwd, env)
    /\ newHome' = expandPath(config.Rules[i].Home, env)
    /\ profileMatched' = TRUE
    /\ pc' = "w_checked"
    /\ UNCHANGED <<inputs, env, disk, mode, config, i, targetVars, execErr, execed,
                   out, exitStatus>>

\* The rule does not match: on to the next one.
SkipRule ==
    /\ pc = "w_match"
    /\ i <= Len(config.Rules)
    /\ ~RuleGlobIsNil(config.Rules[i], env)
    /\ ~RuleMatches(config.Rules[i], cwd, env)
    /\ i' = i + 1
    /\ UNCHANGED <<inputs, env, disk, pc, mode, config, newHome, profileMatched,
                   targetVars, execErr, execed, out, exitStatus>>

\* The diagnostic without the os.Exit(1).
NoMatchExit_FallsThrough ==
    /\ pc = "w_checked"
    /\ ~profileMatched
    /\ out' = out \o <<"FAIL: No multiprof Rule matched the current directory">>
    /\ pc' = "w_target"
    /\ UNCHANGED <<inputs, env, disk, mode, matchVars, targetVars, execErr, execed,
                   exitStatus>>

\* No rule matched: the diagnostics and os.Exit(1).
NoMatchExit ==
    /\ pc = "w_checked"
    /\ ~profileMatched
    /\ Exit("1", <<"FAIL: No multiprof Rule matched the current directory",
                   "INFO: To add a Rule, run: multiprof add-rule">>)
    /\ UNCHANGED <<inputs, env, disk, mode, matchVars, targetVars, execErr, execed>>

\* os.Setenv("HOME", newHome)
SetHome ==
    /\ pc = "w_checked"
    /\ profileMatched
    /\ env' = Setenv(env, HOME, newHome)
    /\ pc' = "w_target"
    /\ UNCHANGED <<inputs, disk, mode, matchVars, targetVars, execErr, execed,
                   out, exitStatus>>

\* A target name with every trailing repetition of the suffix removed.
TargetCmdName_TrimRepeated(name, suffix) == TrimSuffix_Repeated(name, suffix)

\* targetCmdName := strings.TrimSuffix(wrapperName, config.Settings.Suffix)
TargetCmdName(name, suffix) == TrimSuffix(name, suffix)

\* safePath := strings.ReplaceAll(originalPath, wrapperDir+":", "")
SafePath(pathValue, dir) == ReplaceAll(pathValue, dir \o <<ListSeparator>>, <<>>)

\* The target name and the safe PATH are computed and the safe PATH is
\* installed.
InstallSafePath ==
    /\ pc = "w_target"
    /\ wrapperName' = Base(args.argv0)
    /\ targetCmdName' = TargetCmdName(wrapperName', config.Settings.Suffix)
    /\ originalPath' = Getenv(env, PATH)
    /\ wrapperDir' = getWrapperDir(env)
    /\ safePath' = SafePath(originalPath', wrapperDir')
    /\ env' = Setenv(env, PATH, safePath')
    /\ pc' = "w_look"
    /\ UNCHANGED <<inputs, disk, mode, matchVars, targetCmdPath, lookErr, execErr,
                   execed, out, exitStatus>>

\* exec.LookPath(targetCmdName) under the PATH of the moment.
LookPathStep ==
    /\ pc = "w_look"
    /\ LET r == LookPath(targetCmdName, Getenv(env, PATH), bins \cup wrappers)
       IN  targetCmdPath' = r.path /\ lookErr' = r.err
    /\ pc' = "w_restore"
    /\ UNCHANGED <<inputs, env, disk, mode, matchVars, wrapperName, targetCmdName,
                   originalPath, wrapperDir, safePath, execErr, execed, out,
                   exitStatus>>

\* A restore that writes the safe PATH back instead of the original PATH.
RestorePath_RestoresSafePath ==
    /\ pc = "w_restore"
    /\ env' = Setenv(env, PATH, safePath)
    /\ pc' = "w_exec"
    /\ UNCHANGED <<inputs, disk, mode, matchVars, targetVars, execErr, execed,
                   out, exitStatus>>

\* The step without the os.Setenv: the safe PATH stays installed.
RestorePath_Skipped ==
    /\ pc = "w_restore"
    /\ pc' = "w_exec"
    /\ UNCHANGED <<inputs, env, disk, mode, matchVars, targetVars, execErr, execed,
                   out, exitStatus>>

\* os.Setenv("PATH", originalPath)
RestorePath ==
    /\ pc = "w_restore"
    /\ env' = Setenv(env, PATH, originalPath)
    /\ pc' = "w_exec"
    /\ UNCHANGED <<inputs, disk, mode, matchVars, targetVars, execErr, execed,
                   out, exitStatus>>

NotFoundExit ==
    /\ pc = "w_exec"
    /\ lookErr
    /\ Exit("1", <<"FAIL: Could not find target command in the system PATH">>)
    /\ UNCHANGED <<inputs, env, disk, mode, matchVars, targetVars, execErr, execed>>

\* syscall.Exec succeeds: the process image is replaced.
ExecSucceeds ==
    /\ pc = "w_exec"
    /\ ~lookErr
    /\ execed' = [done |-> TRUE, path |-> targetCmdPath, argv |-> args, envp |-> env]
    /\ pc' = "done"
    /\ exitStatus' = "replaced"
    /\ UNCHANGED <<inputs, env, disk, mode, matchVars, targetVars, execErr, out>>

\* syscall.Exec returns an error: the return value is dropped, runWrapper
\* and main return, and the process exits with status 0.
ExecFails ==
    /\ pc = "w_exec"
    /\ ~lookErr
    /\ execErr' = TRUE
    /\ Exit("0", <<>>)
    /\ UNCHANGED <<inputs, env, disk, mode, matchVars, targetVars, execed>>

(***************************************************************************)
(* runManager                                                              *)
(***************************************************************************)
RunInit ==
    /\ pc = "manager"
    /\ args.cmd = "init"
    /\ file' = createDefaultConfig(file)
    /\ dirs' = dirs \cup {getWrapperDir(env)}
    /\ Exit("0", <<"INFO: Running setup wizard...",
                   "OK: Ensured config file exists",
                   "OK: Ensured Wrapper Directory exists",
                   "instructions">>)
    /\ UNCHANGED <<inputs, env, wrappers, completions, mode, matchVars, targetVars,
                   execErr, execed>>

\* --pattern or --home is missing.
RunAddRuleUsage ==
    /\ pc = "manager"
    /\ args.cmd = "add-rule"
    /\ args.pattern = <<>> \/ args.home = <<>>
    /\ Exit("1", <<"FAIL: --pattern and --home flags are required.", "usage">>)
    /\ UNCHANGED <<inputs, env, disk, mode, matchVars, targetVars, execErr, execed>>

\* The shadowing scan of runAddRule over the stored rules, from rule k on:
\* "warn" at the first rule whose glob matches the new pattern, "panic" at a
\* rule whose pattern does not compile, "none" at the end of the list.
RECURSIVE ShadowScan(_, _, _, _)
ShadowScan(rules, k, newPattern, e) ==
    IF k > Len(rules) THEN "none"
    ELSE IF RuleGlobIsNil(rules[k], e) THEN "panic"
    ELSE IF GlobMatch(expandPath(rules[k].Pattern, e), newPattern, CompileSeparators)
         THEN "warn"
    ELSE ShadowScan(rules, k + 1, newPattern, e)

\* The rule list runAddRule stores: the loaded rules and the new rule last.
AddedRules(rules, rule) == Append(rules, rule)

RunAddRule ==
    /\ pc = "manager"
    /\ args.cmd = "add-rule"
    /\ args.pattern # <<>> /\ args.home # <<>>
    /\ LET loaded == loadConfig(file).config
           scan == ShadowScan(loaded.Rules, 1, expandPath(args.pattern, env), env)
       IN  /\ scan # "panic"
           /\ file' = saveConfig([loaded EXCEPT
                         !.Rules = AddedRules(@, Rule(args.pattern, args.home))])
           /\ Exit("0", (IF scan = "warn"
                         THEN <<"WARN: New pattern may be shadowed by existing Rule",
                                "INFO: Rule priority is determined by their order">>
                         ELSE <<>>) \o <<"OK: Added Rule">>)
    /\ UNCHANGED <<inputs, env, dirs, wrappers, completions, mode, matchVars,
                   targetVars, execErr, execed>>

\* The shadowing scan reaches a stored rule whose pattern does not compile.
RunAddRulePanic ==
    /\ pc = "manager"
    /\ args.cmd = "add-rule"
    /\ args.pattern # <<>> /\ args.home # <<>>
    /\ ShadowScan(loadConfig(file).config.Rules, 1, expandPath(args.pattern, env), env)
           = "panic"
    /\ file' = loadConfig(file).file
    /\ Exit("2", <<"panic: nil pointer dereference">>)
    /\ UNCHANGED <<inputs, env, dirs, wrappers, completions, mode, matchVars,
                   targetVars, execErr, execed>>

RunAddWrapper ==
    /\ pc = "manager"
    /\ args.cmd = "add-wrapper"
    /\ IF Len(args.names) # 1
       THEN /\ Exit("1", <<"FAIL: Usage: multiprof add-wrapper <command_name>">>)
            /\ UNCHANGED disk
       ELSE LET cmdName == args.names[1]
                loaded == loadConfig(file)
                name == cmdName \o loaded.config.Settings.Suffix
                dir == getWrapperDir(env)
                warn == IF Contains(Getenv(env, PATH), dir) THEN <<>>
                        ELSE <<"WARN: Wrapper Directory not found in your $PATH.",
                               "INFO: Please run multiprof init">>
                symlinkPath == Join(<<dir, name>>)
            IN  /\ file' = loaded.file
                /\ dirs' = dirs
                /\ IF symlinkPath \notin wrappers /\ dir \notin dirs
                   THEN /\ Exit("1", warn \o <<"FAIL: Failed to create Wrapper">>)
                        /\ UNCHANGED <<wrappers, completions>>
                   ELSE /\ wrappers' = wrappers \cup {symlinkPath}
                        /\ IF loaded.config.Settings.Suffix # <<>>
                           THEN /\ completions' = completions \cup {name}
                                /\ Exit("0", warn \o <<"OK: Created Wrapper",
                                                     "OK: Created completion file">>)
                           ELSE /\ completions' = completions
                                /\ Exit("0", warn \o <<"OK: Created Wrapper">>)
    /\ UNCHANGED <<inputs, env, mode, matchVars, targetVars, execErr, execed>>

RunList ==
    /\ pc = "manager"
    /\ args.cmd = "list"
    /\ file' = loadConfig(file).file
    /\ Exit("0", <<"Wrapper Suffix", "--- Rules (checked in order of priority) ---">>
                 \o (IF loadConfig(file).config.Rules = <<>>
                     THEN <<"No Rules defined.">> ELSE <<"rules">>))
    /\ UNCHANGED <<inputs, env, dirs, wrappers, completions, mode, matchVars,
                   targetVars, execErr, execed>>

RunHelp ==
    /\ pc = "manager"
    /\ args.cmd \in {"help", "-h", "--help"}
    /\ Exit("0", <<"usage">>)
    /\ UNCHANGED <<inputs, env, disk, mode, matchVars, targetVars, execErr, execed>>

RunUnknown ==
    /\ pc = "manager"
    /\ args.cmd \notin {"init", "add-rule", "add-wrapper", "list", "help", "-h", "--help"}
    /\ Exit("1", <<"FAIL: Unknown command">>)
    /\ UNCHANGED <<inputs, env, disk, mode, matchVars, targetVars, execErr, execed>>

(***************************************************************************)
(* The specification                                                       *)
(***************************************************************************)
Next ==
    \/ MainNoExecutable
    \/ MainManager
    \/ MainWrapper
    \/ WrapperLoadConfig
    \/ LoopExit
    \/ MatchPanic
    \/ MatchRule
    \/ SkipRule
    \/ NoMatchExit
    \/ SetHome
    \/ InstallSafePath
    \/ LookPathStep
    \/ RestorePath
    \/ NotFoundExit
    \/ ExecSucceeds
    \/ ExecFails
    \/ RunInit
    \/ RunAddRuleUsage
    \/ RunAddRule
    \/ RunAddRulePanic
    \/ RunAddWrapper
    \/ RunList
    \/ RunHelp
    \/ RunUnknown

Spec == Init /\ [][Next]_vars

(***************************************************************************)
(* Properties                                                              *)
(***************************************************************************)
\* The rule is one the matching loop can match: its glob compiled and
\* matches the directory or the directory with a trailing separator.
Matches(rule, dir, e) == ~RuleGlobIsNil(rule, e) /\ RuleMatches(rule, dir, e)

\* The matching loop of runWrapper is over.
LoopDone == mode = "wrapper" /\ pc \notin {"main", "w_load", "w_match"}

\* The matching loop ended in the call of Match on a nil Glob.
ScanPanicked == LoopDone /\ exitStatus = "2"

\* runWrapper is past the computation of the target name and the safe PATH.
TargetComputed == LoopDone /\ profileMatched /\ pc \notin {"w_checked", "w_target"}

\* C1: first match wins: the HOME runWrapper chooses is the expanded home of
\* the rule with the smallest index whose expanded pattern matches the
\* current directory (or the directory with one trailing separator), also
\* when a later rule matches too.
C1_FirstMatchWins ==
    (LoopDone /\ profileMatched) =>
        \E k \in 1..Len(config.Rules) :
            /\ Matches(config.Rules[k], cwd, startEnv)
            /\ \A j \in 1..(k - 1) : ~Matches(config.Rules[j], cwd, startEnv)
            /\ newHome = expandPath(config.Rules[k].Home, startEnv)

\* C1 witness: the first of two matching rules with different homes was
\* chosen.
C1_Witness ==
    /\ LoopDone /\ profileMatched /\ i = 1
    /\ Len(config.Rules) >= 2
    /\ config.Rules[1].Pattern = <<"/", "a", "/", "*", "*">>
    /\ config.Rules[2].Pattern = <<"/", "a", "/", "b", "/", "*", "*">>
    /\ cwd = <<"/", "a", "/", "b", "/", "c", "/", "d">>
    /\ Matches(config.Rules[2], cwd, startEnv)
    /\ newHome = expandPath(config.Rules[1].Home, startEnv)
    /\ newHome # expandPath(config.Rules[2].Home, startEnv)

\* The characters with a meaning in a glob pattern.
GlobMeta == {"*", "?", "[", "]", "{", "}", "\\"}

IsLiteral(s) == \A k \in 1..Len(s) : s[k] \notin GlobMeta

\* dir is D or below D.
IsAtOrUnder(dir, D) == dir = D \/ HasPrefix(dir, D \o <<Separator>>)

\* dir is below a child of D: D/c/d and deeper.
IsDeeperDescendant(dir, D) ==
    /\ HasPrefix(dir, D \o <<Separator>>)
    /\ \E k \in (Len(D) + 3)..(Len(dir) - 1) : dir[k] = Separator

\* The expanded pattern of rule k is D/* for a literal D.
IsSingleStarRule(k) ==
    LET p == expandPath(config.Rules[k].Pattern, startEnv)
    IN  /\ HasSuffix(p, <<"/", "*">>)
        /\ IsLiteral(SubSeq(p, 1, Len(p) - 2))

\* The expanded pattern of rule k is D/** for a literal D.
IsDoubleStarRule(k) ==
    LET p == expandPath(config.Rules[k].Pattern, startEnv)
    IN  /\ HasSuffix(p, <<"/", "*", "*">>)
        /\ IsLiteral(SubSeq(p, 1, Len(p) - 3))

\* The D of the rule's expanded pattern D/* or D/**.
StarDir(k, stars) ==
    LET p == expandPath(config.Rules[k].Pattern, startEnv)
    IN  SubSeq(p, 1, Len(p) - stars - 1)

\* C2: a rule whose pattern is D/* matches an immediate child D/c and does
\* not match a deeper descendant D/c/d: the matching loop never selects such
\* a rule for a directory below a child of D.
C2_SingleStarStopsAtSeparator ==
    (LoopDone /\ profileMatched /\ IsSingleStarRule(i)) =>
        ~IsDeeperDescendant(expandPath(cwd, startEnv), StarDir(i, 1))

\* C3: a rule whose pattern is D/** matches D itself (through the form with
\* a trailing separator) and every descendant of D, and no directory
\* outside D, such as a sibling whose name starts with D's last component:
\* when the loop is over, such a rule was selected only for a directory at
\* or under D, and in a directory at or under D the scan, unless it ended at
\* an earlier rule whose glob is nil, selected that rule or an earlier one.
C3_DoubleStarMatchesDirAndDescendants ==
    LoopDone =>
        \A k \in 1..Len(config.Rules) :
            IsDoubleStarRule(k) =>
                /\ (profileMatched /\ i = k)
                       => IsAtOrUnder(expandPath(cwd, startEnv), StarDir(k, 2))
                /\ (IsAtOrUnder(expandPath(cwd, startEnv), StarDir(k, 2)) /\ ~ScanPanicked)
                       => (profileMatched /\ i <= k)

\* C3 witness: the rule D/** was selected in D itself.
C3_Witness ==
    /\ LoopDone /\ profileMatched
    /\ IsDoubleStarRule(i)
    /\ expandPath(cwd, startEnv) = StarDir(i, 2)

\* The wrapper directory is the first entry of the PATH the process was
\* started with.
WrapperDirFirstInPath ==
    /\ PATH \in DOMAIN startEnv
    /\ SplitList(startEnv[PATH]) # <<>>
    /\ SplitList(startEnv[PATH])[1] = UserWrapperDir

\* C4: the target is looked up on a PATH from which the wrapper directory is
\* hidden, so that the target a wrapper invocation executes is never a
\* wrapper symlink of the wrapper directory; stated for the invocations the
\* claim names, those with the wrapper directory as the first PATH entry.
C4_TargetIsNeverAWrapper ==
    (execed.done /\ WrapperDirFirstInPath) => execed.path \notin wrappers

\* C5: the environment handed to the target is the start environment with
\* HOME set to the expanded home of the matched rule: PATH is the original
\* PATH and every other variable is unchanged.
C5_ExecEnvIsStartEnvWithHome ==
    execed.done =>
        execed.envp = Setenv(startEnv, HOME, expandPath(config.Rules[i].Home, startEnv))

\* C5 witness: the target was executed after a lookup under a safe PATH that
\* differs from the original PATH, with a HOME that differs from the
\* original HOME.
C5_Witness ==
    /\ execed.done
    /\ safePath # originalPath
    /\ execed.envp[PATH] = startEnv[PATH]
    /\ execed.envp[HOME] # startEnv[HOME]

\* No rule of the list matches the directory.
NoRuleMatches == \A k \in 1..Len(config.Rules) : ~Matches(config.Rules[k], cwd, startEnv)

\* C6: a wrapper invocation whose directory matches no rule, or whose target
\* is not found on the safe PATH, never replaces the process image, and ends
\* with a non-zero status after a diagnostic.
C6_NoMatchOrNotFoundIsFatal ==
    (LoopDone /\ (NoRuleMatches \/ (TargetComputed /\ pc \in {"w_exec", "done"} /\ lookErr))) =>
        /\ ~execed.done
        /\ pc = "done" => (exitStatus \in {"1", "2"} /\ out # <<>>)
        /\ pc # "done" => (pc \in {"w_checked", "w_exec"})

\* C6 witness: a wrapper invocation with an empty rule list has ended.
C6_Witness ==
    /\ mode = "wrapper" /\ pc = "done"
    /\ config.Rules = <<>>
    /\ exitStatus = "1"
    /\ out # <<>>

\* C7: a failed process replacement is fatal: it is reported and the
\* process ends with a non-zero status.
C7_ExecFailureIsFatal ==
    (pc = "done" /\ execErr) => (exitStatus \in {"1", "2"} /\ out # <<>>)

\* C8: the target command name is the invoked base name without the
\* configured suffix, removed once from its end, when the name ends with it,
\* and the invoked base name otherwise.
C8_SuffixStrippedOnce ==
    TargetComputed =>
        /\ wrapperName = Base(args.argv0)
        /\ IF HasSuffix(wrapperName, config.Settings.Suffix)
           THEN targetCmdName \o config.Settings.Suffix = wrapperName
           ELSE targetCmdName = wrapperName

\* C8 witness: aws_w with suffix _w gave aws.
C8_Witness ==
    /\ TargetComputed
    /\ wrapperName = Aws \o SuffixW
    /\ config.Settings.Suffix = SuffixW
    /\ targetCmdName = Aws

\* C9: every entry of the safe PATH is an unmodified entry of the original
\* PATH.
C9_SafePathEntriesAreOriginal ==
    TargetComputed =>
        \A k \in 1..Len(SplitList(safePath)) :
            \E m \in 1..Len(SplitList(originalPath)) :
                SplitList(safePath)[k] = SplitList(originalPath)[m]

\* C10 as stated: wrapper mode exactly when the invoked base name is not the
\* executable's own base name.
C10_WrapperModeIffOtherName ==
    mode # "undecided" =>
        (mode = "wrapper" <=> Base(args.argv0) # Base(ownExecutable.path))

\* C10 as amended: once main has dispatched, the mode is "manager" when the
\* invoked base name is the executable's own base name or "main", and
\* "wrapper" for every other name; when os.Executable fails no mode is
\* entered and the process exits with status 1.
C10_ModeFromInvokedName ==
    pc # "main" =>
        IF ownExecutable.err THEN mode = "undecided" /\ exitStatus = "1"
        ELSE mode = (IF Base(args.argv0) \in {Base(ownExecutable.path), MainName}
                     THEN "manager" ELSE "wrapper")

\* C10 witness: invoked as "main", which is not the executable's name, the
\* process is in management mode.
C10_Witness ==
    /\ mode = "manager"
    /\ Base(args.argv0) = MainName
    /\ Base(ownExecutable.path) # MainName

\* A rule of the list has a pattern that does not compile and a later rule
\* is one the loop can match.
BadPatternBeforeMatch ==
    \E b \in 1..Len(config.Rules) :
        /\ RuleGlobIsNil(config.Rules[b], startEnv)
        /\ \A j \in 1..(b - 1) : ~Matches(config.Rules[j], cwd, startEnv)
        /\ \E k \in (b + 1)..Len(config.Rules) : Matches(config.Rules[k], cwd, startEnv)

\* C11: a rule whose expanded pattern does not compile is skipped as
\* non-matching: the scan goes on, a later matching rule is selected and the
\* invocation is not aborted because of the bad pattern.
C11_BadPatternIsSkipped ==
    (LoopDone /\ BadPatternBeforeMatch) => (profileMatched /\ ~ScanPanicked)

\* C12: the safe PATH is installed for the lookup alone: outside the lookup
\* (from the installation of the safe PATH to the restore that follows
\* exec.LookPath) the PATH of the process is the PATH it was started with,
\* on the failure path of the lookup as on the success path, so the
\* not-found exit and the exec run under the original PATH.
C12_SafePathOnlyDuringLookup ==
    /\ pc \notin {"w_look", "w_restore"} => Getenv(env, PATH) = Getenv(startEnv, PATH)
    /\ (TargetComputed /\ pc \in {"w_exec", "done"}) =>
           /\ originalPath = Getenv(startEnv, PATH)
           /\ Getenv(env, PATH) = originalPath

\* C12 witness: the lookup failed under a safe PATH that differs from the
\* original PATH, and the process has taken the not-found exit.
C12_Witness ==
    /\ TargetComputed /\ pc = "done"
    /\ lookErr
    /\ exitStatus = "1"
    /\ safePath # originalPath
    /\ Getenv(env, PATH) = originalPath

\* The home of the rule the loop selected begins with "~" and holds no
\* environment reference.
SelectedTildeHome ==
    /\ LoopDone /\ profileMatched
    /\ HasPrefix(config.Rules[i].Home, <<"~">>)
    /\ "$" \notin {config.Rules[i].Home[k] : k \in 1..Len(config.Rules[i].Home)}

\* The components of a path are names: none is empty, "." or "..".
HasPlainComponents(s) ==
    \A k \in 1..Len(SplitOn(s, Separator)) :
        SplitOn(s, Separator)[k] \notin {<<>>, <<".">>, <<".", ".">>}

\* C13 as stated: the leading "~" is replaced by the home directory and what
\* follows it is kept verbatim.
C13_TildeRestVerbatim ==
    SelectedTildeHome =>
        newHome = Getenv(startEnv, HOME) \o Tail(config.Rules[i].Home)

\* C13 as amended: the home directory is joined to what follows the "~" and
\* the result is normalized: it is rooted and its components are plain
\* names (no trailing or doubled separator, no "." or ".."); a remainder
\* that is empty or a separator followed by plain components is kept
\* verbatim, and a remainder of plain components that does not begin with a
\* separator gets one separator put before it.
C13_TildeJoinedAndCleaned ==
    SelectedTildeHome =>
        LET home == Getenv(startEnv, HOME)
            rest == Tail(config.Rules[i].Home)
        IN  /\ newHome[1] = Separator
            /\ HasPlainComponents(Tail(newHome))
            /\ rest = <<>> => newHome = home
            /\ (rest # <<>> /\ rest[1] = Separator /\ HasPlainComponents(Tail(rest)))
                   => newHome = home \o rest
            /\ (rest # <<>> /\ rest[1] # Separator /\ HasPlainComponents(rest))
                   => newHome = home \o <<Separator>> \o rest

\* C13 witness: "~/p/../q" was expanded to "/u/q".
C13_Witness ==
    /\ SelectedTildeHome
    /\ config.Rules[i].Home = <<"~", "/", "p", "/", ".", ".", "/", "q">>
    /\ newHome = <<"/", "u", "/", "q">>

\* C14: the wrapper directory that runWrapper strips from PATH is the one
\* under the invoking user's home at startup, whatever the home of the
\* matched rule: computing it after HOME was overridden gives the same value
\* as computing it before.
C14_WrapperDirUnderOriginalHome ==
    TargetComputed => wrapperDir = getWrapperDir(startEnv)

\* C15: add-rule only appends.  When add-rule succeeds on an existing
\* configuration file, the rules stored afterwards are the rules the file
\* held before, in their order, followed by the new rule, and the suffix
\* setting is the one the file held; this is so with or without the
\* shadowing warning and also when the file could not be loaded.
C15_AddRuleOnlyAppends ==
    [][(/\ pc = "manager"
        /\ args.cmd = "add-rule"
        /\ file.state # "missing"
        /\ exitStatus' = "0")
       => (/\ file'.config.Rules =
                  Append(file.config.Rules, Rule(args.pattern, args.home))
           /\ file'.config.Settings = file.config.Settings)]_vars

====
